---------------------------- MODULE Spec2Model ----------------------------
(***************************************************************************)
(* Model of the Maltrail configuration loader (core/settings.py), the      *)
(* custom local feed adapter (trails/custom/__init__.py) and the badips    *)
(* remote feed adapter (trails/feeds/badips.py).                           *)
(*                                                                         *)
(* A Python byte string is modelled as a sequence of one-character         *)
(* strings, so that strip, split, replace, isdigit, int and the regular    *)
(* expressions of the source are computed character by character.          *)
(***************************************************************************)
EXTENDS Integers, Sequences, FiniteSets, TLC

VARIABLES
    customDir,      \* trails/custom directory: file name -> file content
    customRetval,   \* mapping returned by the last custom fetch()
    customPc,       \* "idle" | "returned"
    feedContent,    \* what retrieve_content(__url__) hands to badips fetch()
    badipsRetval,   \* mapping returned by the last badips fetch()
    badipsPc,       \* "idle" | "returned"
    whitelistFile,  \* trails/whitelist.txt: a file or nothing
    WHITELIST,      \* settings.WHITELIST
    whitelistPc,    \* "idle" | "returned" (read_whitelist just returned) | "edited"
    dropped,        \* the entries the last read_whitelist call cleared and did not add again
    host,           \* the machine: platform and what its memory probes answer
    configFile,     \* maltrail.conf: a file or nothing
    config,         \* settings.config: [set, d]; set is FALSE while it is None
    BUFFER_LENGTH,  \* settings.BUFFER_LENGTH
    configPc,       \* "idle", or how the last read_config call ended
    parsedContent,  \* the content read_config read when it parsed the file
    physmem,        \* what _get_total_physmem returned to read_config
    firstLoad       \* config and BUFFER_LENGTH as the first successful load left them

vars == <<customDir, customRetval, customPc, feedContent, badipsRetval, badipsPc,
          whitelistFile, WHITELIST, whitelistPc, dropped, host, configFile, config,
          BUFFER_LENGTH, configPc, parsedContent, physmem, firstLoad>>

customVars    == <<customDir, customRetval, customPc>>
badipsVars    == <<feedContent, badipsRetval, badipsPc>>
whitelistVars == <<whitelistFile, WHITELIST, whitelistPc, dropped>>
configVars    == <<host, configFile, config, BUFFER_LENGTH, configPc, parsedContent, physmem,
                   firstLoad>>

None == "None"

-----------------------------------------------------------------------------
(* Python string primitives *)

Range(s) == {s[i] : i \in DOMAIN s}

\* strings of length <= n over an alphabet
Strs(alphabet, n) == UNION {[1..k -> alphabet] : k \in 0..n}

\* sequences of length <= n over a set
SeqsUpTo(S, n) == UNION {[1..k -> S] : k \in 0..n}

\* characters str.strip() removes by default
Whitespace == {" ", "\t", "\n", "\r", "\f"}

Digits == {"0", "1", "2", "3", "4", "5", "6", "7", "8", "9"}

RECURSIVE LStripChars(_, _)
LStripChars(s, cs) ==
    IF s # <<>> /\ Head(s) \in cs THEN LStripChars(Tail(s), cs) ELSE s

RECURSIVE RStripChars(_, _)
RStripChars(s, cs) ==
    IF s # <<>> /\ s[Len(s)] \in cs THEN RStripChars(SubSeq(s, 1, Len(s) - 1), cs) ELSE s

StripChars(s, cs) == LStripChars(RStripChars(s, cs), cs)

Strip(s) == StripChars(s, Whitespace)

StartsWith(s, p) == Len(s) >= Len(p) /\ SubSeq(s, 1, Len(p)) = p

EndsWith(s, p) == Len(s) >= Len(p) /\ SubSeq(s, Len(s) - Len(p) + 1, Len(s)) = p

\* str.find, 1-based; 0 when sub does not occur
Find(s, sub) ==
    LET hits == {i \in 1..(Len(s) - Len(sub) + 1) : SubSeq(s, i, i + Len(sub) - 1) = sub}
    IN IF hits = {} THEN 0 ELSE CHOOSE i \in hits : \A j \in hits : i <= j

Contains(s, sub) == Find(s, sub) # 0

\* str.split(c) for a one-character separator
RECURSIVE Split(_, _)
Split(s, c) ==
    LET i == Find(s, <<c>>)
    IN IF i = 0 THEN <<s>>
       ELSE <<SubSeq(s, 1, i - 1)>> \o Split(SubSeq(s, i + 1, Len(s)), c)

\* str.split(c, 1)
SplitOnce(s, c) ==
    LET i == Find(s, <<c>>)
    IN IF i = 0 THEN <<s>> ELSE <<SubSeq(s, 1, i - 1), SubSeq(s, i + 1, Len(s))>>

RECURSIVE Join(_, _)
Join(parts, sep) ==
    IF parts = <<>> THEN <<>>
    ELSE IF Len(parts) = 1 THEN parts[1]
    ELSE parts[1] \o sep \o Join(Tail(parts), sep)

\* str.replace for a one-character old and new
ReplaceChar(s, old, new) == [i \in DOMAIN s |-> IF s[i] = old THEN new ELSE s[i]]

\* str.isdigit
IsDigit(s) == s # <<>> /\ Range(s) \subseteq Digits

\* dict[key] = value
Put(d, k, v) == [x \in DOMAIN d \cup {k} |-> IF x = k THEN v ELSE d[x]]

EmptyDict == [x \in {} |-> None]

-----------------------------------------------------------------------------
(* trails/custom/__init__.py *)

custom__reference__ == <<"(", "c", "u", "s", "t", "o", "m", ")">>

\* group(0) taken for group(1): the separator stays in front of the rest
AfterSchemeGroup0(line) == SubSeq(line, Find(line, <<":", "/", "/">>), Len(line))

\* re.search(r"://(.*)", line).group(1): what follows the leftmost "://"
AfterScheme(line) == SubSeq(line, Find(line, <<":", "/", "/">>) + 3, Len(line))

\* re.search(r"\A\d+\.\d+\.\d+\.\d+\Z", line)
IsIPv4Literal(line) ==
    LET parts == Split(line, ".")
    IN Len(parts) = 4 /\ \A i \in 1..4 : IsDigit(parts[i])

\* one trailing separator removed where rstrip removes them all
RStripOneSlash(line) ==
    IF line # <<>> /\ line[Len(line)] = "/" THEN SubSeq(line, 1, Len(line) - 1) ELSE line

\* line.rstrip('/')
RStripSlash(line) == RStripChars(line, {"/"})

\* the body of the per-line loop: retval after one raw line of a file
FetchLine(retval, info, raw) ==
    LET line == Strip(raw)
    IN IF line = <<>> \/ Head(line) = "#" THEN retval
       ELSE LET unschemed == IF Contains(line, <<":", "/", "/">>)
                             THEN AfterScheme(line) ELSE line
                path == RStripSlash(unschemed)
            IN IF "/" \in Range(path)
               THEN Put(retval, path, <<info, custom__reference__>>)
               ELSE IF IsIPv4Literal(path)
               THEN Put(retval, path, <<info, custom__reference__>>)
               ELSE Put(retval, StripChars(path, {"."}), <<info, custom__reference__>>)

RECURSIVE FetchLines(_, _, _)
FetchLines(retval, info, lines) ==
    IF lines = <<>> THEN retval
    ELSE FetchLines(FetchLine(retval, info, Head(lines)), info, Tail(lines))

\* os.path.splitext(name)[0]: cut at the last dot, unless only leading dots precede it
SplitextRoot(name) ==
    LET dots == {i \in DOMAIN name : name[i] = "."}
        last == IF dots = {} THEN 0 ELSE CHOOSE i \in dots : \A j \in dots : j <= i
    IN IF last = 0 \/ (\A j \in 1..last : name[j] = ".") THEN name
       ELSE SubSeq(name, 1, last - 1)

\* the underscores of the file name kept
CustomInfoRaw(filename) == SplitextRoot(filename)

\* __info__ of a list file
CustomInfo(filename) == ReplaceChar(SplitextRoot(filename), "_", " ")

\* glob.glob("*.txt"): names ending in .txt, hidden files excluded
GlobTxt(dir) ==
    {n \in DOMAIN dir : EndsWith(n, <<".", "t", "x", "t">>) /\ Head(n) # "."}

RECURSIVE FetchFiles(_, _, _)
FetchFiles(retval, dir, order) ==
    IF order = <<>> THEN retval
    ELSE FetchFiles(FetchLines(retval, CustomInfo(Head(order)), Split(dir[Head(order)], "\n")),
                    dir, Tail(order))

\* the orders in which glob may list a set of files
Orders(S) == {o \in [1..Cardinality(S) -> S] : Range(o) = S}

CustomFetch ==
    /\ customPc = "idle"
    /\ \E order \in Orders(GlobTxt(customDir)) :
          customRetval' = FetchFiles(EmptyDict, customDir, order)
    /\ customPc' = "returned"
    /\ UNCHANGED <<customDir, badipsVars, whitelistVars, configVars>>

-----------------------------------------------------------------------------
(* trails/feeds/badips.py *)

badips__check__     == <<".", "1", "2", "1", ".">>
badips__info__      == <<"a", "t", "t", "a", "c", "k", "e", "r">>
badips__reference__ == <<"b", "a", "d", "i", "p", "s", ".", "c", "o", "m">>

\* the body of the per-line loop of the badips fetch
BadipsLine(retval, raw) ==
    LET line == Strip(raw)
    IN IF line = <<>> \/ Head(line) = "#" \/ "." \notin Range(line) THEN retval
       ELSE Put(retval, Split(line, "\t")[1], <<badips__info__, badips__reference__>>)

RECURSIVE BadipsLines(_, _)
BadipsLines(retval, lines) ==
    IF lines = <<>> THEN retval
    ELSE BadipsLines(BadipsLine(retval, Head(lines)), Tail(lines))

\* the validation of the content skipped
SentinelIgnored(content) == TRUE

\* __check__ in content
SentinelPresent(content) == Contains(content, badips__check__)

BadipsResult(content) ==
    IF SentinelPresent(content) THEN BadipsLines(EmptyDict, Split(content, "\n"))
    ELSE EmptyDict

BadipsFetch ==
    /\ badipsPc = "idle"
    /\ badipsRetval' = BadipsResult(feedContent)
    /\ badipsPc' = "returned"
    /\ UNCHANGED <<feedContent, customVars, whitelistVars, configVars>>

-----------------------------------------------------------------------------
(* core/settings.py: read_whitelist *)

\* a file of the file system: a regular file with a content, or nothing
File(content) == [exists |-> TRUE, content |-> content]
Absent        == [exists |-> FALSE, content |-> <<>>]

\* f.xreadlines(): the lines of a content, each with its terminator
RECURSIVE XReadLines(_)
XReadLines(content) ==
    LET i == Find(content, <<"\n">>)
    IN IF content = <<>> THEN <<>>
       ELSE IF i = 0 THEN <<content>>
       ELSE <<SubSeq(content, 1, i)>> \o XReadLines(SubSeq(content, i + 1, Len(content)))

\* the body of the per-line loop of read_whitelist
WhitelistLine(set, raw) ==
    LET line == Strip(raw)
    IN IF line = <<>> \/ Head(line) = "#" THEN set ELSE set \cup {line}

RECURSIVE WhitelistLines(_, _)
WhitelistLines(set, lines) ==
    IF lines = <<>> THEN set
    ELSE WhitelistLines(WhitelistLine(set, Head(lines)), Tail(lines))

\* the set not cleared before it is filled again
NotCleared(set) == set

\* WHITELIST.clear()
Cleared(set) == {}

ReadWhitelist ==
    /\ WHITELIST' = IF whitelistFile.exists
                    THEN WhitelistLines(Cleared(WHITELIST), XReadLines(whitelistFile.content))
                    ELSE Cleared(WHITELIST)
    /\ dropped' = WHITELIST \ WHITELIST'
    /\ whitelistPc' = "returned"
    /\ UNCHANGED <<whitelistFile, customVars, badipsVars, configVars>>

-----------------------------------------------------------------------------
(* core/settings.py: constants and the values of the configuration store *)

SNAP_LEN     == 2000
BLOCK_LENGTH == 1 + 2 + 4 + 4 + SNAP_LEN

\* BUFFER_LENGTH as the module sets it at import (Python 2 integer division)
DefaultBufferLength == ((512 * 1024 * 1024) \div BLOCK_LENGTH) * BLOCK_LENGTH

OptMonitorInterface == <<"M", "O", "N", "I", "T", "O", "R", "_", "I", "N", "T", "E", "R", "F", "A", "C", "E">>
OptCaptureBuffer    == <<"C", "A", "P", "T", "U", "R", "E", "_", "B", "U", "F", "F", "E", "R">>
OptLogDirectory     == <<"L", "O", "G", "_", "D", "I", "R", "E", "C", "T", "O", "R", "Y">>

\* the options read_config insists on, in the order it checks them
MandatoryOptions == <<OptMonitorInterface, OptCaptureBuffer, OptLogDirectory>>

\* a value of the store: a string, an integer, a boolean or a list of strings
StrV(s)  == [t |-> "str",  s |-> s,    n |-> 0, b |-> FALSE, l |-> <<>>]
IntV(n)  == [t |-> "int",  s |-> <<>>, n |-> n, b |-> FALSE, l |-> <<>>]
BoolV(b) == [t |-> "bool", s |-> <<>>, n |-> 0, b |-> b,     l |-> <<>>]
ListV(l) == [t |-> "list", s |-> <<>>, n |-> 0, b |-> FALSE, l |-> l]

\* Python truth of a value of the store
Truthy(v) ==
    CASE v.t = "str"  -> v.s # <<>>
      [] v.t = "int"  -> v.n # 0
      [] v.t = "bool" -> v.b
      [] v.t = "list" -> v.l # <<>>

LowerLetters == <<"a", "b", "c", "d", "e", "f", "g", "h", "i", "j", "k", "l", "m",
                  "n", "o", "p", "q", "r", "s", "t", "u", "v", "w", "x", "y", "z">>
UpperLetters == <<"A", "B", "C", "D", "E", "F", "G", "H", "I", "J", "K", "L", "M",
                  "N", "O", "P", "Q", "R", "S", "T", "U", "V", "W", "X", "Y", "Z">>

UpperChar(c) ==
    IF \E i \in 1..26 : LowerLetters[i] = c
    THEN UpperLetters[CHOOSE i \in 1..26 : LowerLetters[i] = c] ELSE c

LowerChar(c) ==
    IF \E i \in 1..26 : UpperLetters[i] = c
    THEN LowerLetters[CHOOSE i \in 1..26 : UpperLetters[i] = c] ELSE c

\* str.upper, str.lower
Upper(s) == [i \in DOMAIN s |-> UpperChar(s[i])]
Lower(s) == [i \in DOMAIN s |-> LowerChar(s[i])]

DigitSeq == <<"0", "1", "2", "3", "4", "5", "6", "7", "8", "9">>

DigitValue(c) == (CHOOSE i \in 1..10 : DigitSeq[i] = c) - 1

\* int(s) of a string of digits
RECURSIVE ParseInt(_)
ParseInt(s) ==
    IF s = <<>> THEN 0
    ELSE 10 * ParseInt(SubSeq(s, 1, Len(s) - 1)) + DigitValue(s[Len(s)])

\* str.replace(old, new), old not empty
RECURSIVE ReplaceAll(_, _, _)
ReplaceAll(s, old, new) ==
    LET i == Find(s, old)
    IN IF i = 0 THEN s
       ELSE SubSeq(s, 1, i - 1) \o new \o ReplaceAll(SubSeq(s, i + Len(old), Len(s)), old, new)

\* the characters of [A-Z0-9_]
VarNameChars == Range(UpperLetters) \cup Digits \cup {"_"}

\* the end of the run of [A-Z0-9_] that starts at position i
RECURSIVE RunEnd(_, _)
RunEnd(s, i) == IF i < Len(s) /\ s[i + 1] \in VarNameChars THEN RunEnd(s, i + 1) ELSE i

\* re.finditer(r"\$([A-Z0-9_]+)", value): group(1) of the matches, left to right
RECURSIVE VarMatches(_)
VarMatches(s) ==
    LET starts == {i \in 1..(Len(s) - 1) : s[i] = "$" /\ s[i + 1] \in VarNameChars}
        i      == CHOOSE k \in starts : \A j \in starts : k <= j
        e      == RunEnd(s, i + 1)
    IN IF starts = {} THEN <<>>
       ELSE <<SubSeq(s, i + 1, e)>> \o VarMatches(SubSeq(s, e + 1, Len(s)))

\* the upper-case names of globals() of core/settings.py that hold a string
GlobalStr ==
    [x \in {<<"N", "A", "M", "E">>, <<"V", "E", "R", "S", "I", "O", "N">>} |->
        IF x = <<"N", "A", "M", "E">> THEN <<"M", "a", "l", "t", "r", "a", "i", "l">>
        ELSE <<"0", ".", "6">>]

\* upper-case names of globals() that hold something that is no string
GlobalNonStr == {<<"T", "I", "M", "E", "O", "U", "T">>, <<"S", "N", "A", "P", "_", "L", "E", "N">>}

\* os.environ of the modelled process
Environ == [x \in {<<"C", "B">>} |-> <<"4", "0", "2", "2">>]

\* the loop over the $NAME matches: [ok, s]; ok is FALSE when str.replace raises TypeError
RECURSIVE SubstituteVars(_, _)
SubstituteVars(value, names) ==
    IF names = <<>> THEN [ok |-> TRUE, s |-> value]
    ELSE LET name == Head(names)
             ref  == <<"$">> \o name
         IN IF name \in GlobalNonStr THEN [ok |-> FALSE, s |-> value]
            ELSE IF name \in DOMAIN GlobalStr
            THEN SubstituteVars(ReplaceAll(value, ref, GlobalStr[name]), Tail(names))
            ELSE SubstituteVars(
                     ReplaceAll(value, ref, IF name \in DOMAIN Environ THEN Environ[name] ELSE ref),
                     Tail(names))

\* value.replace("/", "\\") on Windows, for a value that is no URL
NativePath(value, mswindows) ==
    IF mswindows /\ ~Contains(value, <<":", "/", "/">>) THEN ReplaceChar(value, "/", "\\") ELSE value

\* the coercion of a scalar's value: [ok, v]
Coerce(name, value, mswindows) ==
    IF StartsWith(name, <<"U", "S", "E", "_">>)
    THEN [ok |-> TRUE, v |-> BoolV(Lower(value) \in {<<"1">>, <<"t", "r", "u", "e">>})]
    ELSE IF IsDigit(value)
    THEN [ok |-> TRUE, v |-> IntV(ParseInt(value))]
    ELSE LET sub == SubstituteVars(value, VarMatches(value))
         IN [ok |-> sub.ok, v |-> StrV(NativePath(sub.s, mswindows))]

-----------------------------------------------------------------------------
(* core/settings.py: _get_total_physmem and read_config *)

\* a result that may be None
NoneVal    == [none |-> TRUE,  n |-> 0]
IntVal(n)  == [none |-> FALSE, n |-> n]
Falsy(r)   == r.none \/ r.n = 0

\* h is the host, [mswindows, primary, psutil]: primary is dwTotalPhys on Windows and the
\* MemTotal kB figure of /proc/meminfo elsewhere, None when reading it raises;
\* psutil is phymem_usage().total, None when psutil is missing or raises
_get_total_physmem(h) ==
    LET retval == IF h.primary.none THEN NoneVal
                  ELSE IF h.mswindows THEN h.primary
                  ELSE IntVal(1024 * h.primary.n)
    IN IF Falsy(retval) /\ ~h.psutil.none THEN h.psutil ELSE retval

\* re.sub(r"#.+", "", line)
Decomment(line) ==
    LET i == Find(line, <<"#">>)
    IN IF i = 0 \/ i = Len(line) THEN line ELSE SubSeq(line, 1, i - 1)

\* the state of the parsing loop: the store, the current array ("" for None) and
\* the exception that ended the loop, if any
ParseStart == [d |-> EmptyDict, array |-> <<>>, raised |-> "no"]

\* the body of the loop over the lines of the configuration file
ParseLine(st, raw, mswindows) ==
    LET line == Decomment(raw)
    IN IF Strip(line) = <<>> THEN st
       ELSE IF " " \notin Range(line)
       THEN [st EXCEPT !.array = Upper(line), !.d = Put(st.d, Upper(line), ListV(<<>>))]
       ELSE IF st.array # <<>> /\ Head(line) = " "
       THEN [st EXCEPT !.d = Put(st.d, st.array, ListV(Append(st.d[st.array].l, Strip(line))))]
       ELSE LET parts == SplitOnce(Strip(line), " ")
            IN IF Len(parts) # 2
               THEN [st EXCEPT !.array = <<>>, !.raised = "ValueError"]
               ELSE LET name  == Upper(parts[1])
                        value == StripChars(parts[2], {"'", "\""})
                        c     == Coerce(name, value, mswindows)
                    IN IF c.ok
                       THEN [st EXCEPT !.array = <<>>, !.d = Put(st.d, name, c.v)]
                       ELSE [st EXCEPT !.array = <<>>, !.raised = "TypeError"]

RECURSIVE ParseLines(_, _, _)
ParseLines(st, lines, mswindows) ==
    IF lines = <<>> \/ st.raised # "no" THEN st
    ELSE ParseLines(ParseLine(st, Head(lines), mswindows), Tail(lines), mswindows)

\* the try block of read_config; open() raising IOError leaves the store empty
ParseConfig(content, readable, mswindows) ==
    IF readable THEN ParseLines(ParseStart, Split(content, "\n"), mswindows) ELSE ParseStart

\* the end of the run of digits that starts at position i
RECURSIVE RunEndDigits(_, _)
RunEndDigits(s, i) == IF i < Len(s) /\ s[i + 1] \in Digits THEN RunEndDigits(s, i + 1) ELSE i

\* BUFFER_LENGTH / BLOCK_LENGTH * BLOCK_LENGTH
RoundToBlocks(n) == (n \div BLOCK_LENGTH) * BLOCK_LENGTH

\* (\d+) of re.search(r"(\d+)%", s): the leftmost run of digits that a % follows
PercentDigits(s) ==
    LET hits == {i \in 1..Len(s) : s[i] \in Digits /\ RunEndDigits(s, i) < Len(s)
                                   /\ s[RunEndDigits(s, i) + 1] = "%"}
        i    == CHOOSE k \in hits : \A j \in hits : k <= j
    IN IF hits = {} THEN <<>> ELSE SubSeq(s, i, RunEndDigits(s, i))

\* the sizing step going on with the default when the memory size is unknown
SizingSilentDefault(cb, bl, h) ==
    IF ~Truthy(cb) THEN [pc |-> "ok", bl |-> bl, physmem |-> NoneVal]
    ELSE IF cb.t # "str" THEN [pc |-> "raised_AttributeError", bl |-> bl, physmem |-> NoneVal]
    ELSE IF IsDigit(cb.s)
    THEN [pc |-> "ok", bl |-> RoundToBlocks(ParseInt(cb.s)), physmem |-> NoneVal]
    ELSE IF PercentDigits(cb.s) # <<>> /\ ~Falsy(_get_total_physmem(h))
    THEN [pc |-> "ok", physmem |-> _get_total_physmem(h),
          bl |-> RoundToBlocks((_get_total_physmem(h).n * ParseInt(PercentDigits(cb.s))) \div 100)]
    ELSE [pc |-> "ok", bl |-> RoundToBlocks(bl), physmem |-> _get_total_physmem(h)]

\* the sizing step: [pc, bl, physmem] from the CAPTURE_BUFFER of the store
Sizing(cb, bl, h) ==
    IF ~Truthy(cb) THEN [pc |-> "ok", bl |-> bl, physmem |-> NoneVal]
    ELSE IF cb.t # "str" THEN [pc |-> "raised_AttributeError", bl |-> bl, physmem |-> NoneVal]
    ELSE IF IsDigit(cb.s)
    THEN [pc |-> "ok", bl |-> RoundToBlocks(ParseInt(cb.s)), physmem |-> NoneVal]
    ELSE IF PercentDigits(cb.s) # <<>>
    THEN LET pm == _get_total_physmem(h)
         IN IF ~Falsy(pm)
            THEN [pc |-> "ok", physmem |-> pm,
                  bl |-> RoundToBlocks((pm.n * ParseInt(PercentDigits(cb.s))) \div 100)]
            ELSE [pc |-> "exit_physmem", bl |-> bl, physmem |-> pm]
    ELSE [pc |-> "ok", bl |-> RoundToBlocks(bl), physmem |-> NoneVal]

\* the first mandatory option the store lacks, 0 when it has them all
FirstMissing(d) ==
    LET missing == {i \in 1..3 : MandatoryOptions[i] \notin DOMAIN d}
    IN IF missing = {} THEN 0 ELSE CHOOSE i \in missing : \A j \in missing : i <= j

\* "not config"
ConfigFalsy(c) == ~c.set \/ DOMAIN c.d = {}

NoContent == [read |-> FALSE, s |-> <<>>]

\* read_config on an existing file with no store yet: parse, check, size
LoadConfig(readable) ==
    LET st == ParseConfig(configFile.content, readable, host.mswindows)
        sz == Sizing(st.d[OptCaptureBuffer], BUFFER_LENGTH, host)
    IN /\ config' = [set |-> TRUE, d |-> st.d]
       /\ parsedContent' = [read |-> readable, s |-> IF readable THEN configFile.content ELSE <<>>]
       /\ IF st.raised # "no"
          THEN /\ configPc' = IF st.raised = "ValueError" THEN "raised_ValueError"
                              ELSE "raised_TypeError"
               /\ UNCHANGED <<BUFFER_LENGTH, physmem, firstLoad>>
          ELSE IF FirstMissing(st.d) # 0
          THEN /\ configPc' = "exit_missing_option"
               /\ UNCHANGED <<BUFFER_LENGTH, physmem, firstLoad>>
          ELSE /\ configPc' = sz.pc
               /\ BUFFER_LENGTH' = sz.bl
               /\ physmem' = sz.physmem
               /\ firstLoad' = IF sz.pc = "ok"
                               THEN [done |-> TRUE, d |-> st.d, bl |-> sz.bl]
                               ELSE firstLoad

\* read_config(); an exit or an exception ends the process
ReadConfig ==
    /\ configPc \in {"idle", "ok"}
    /\ IF ~configFile.exists
       THEN /\ configPc' = "exit_missing_file"
            /\ UNCHANGED <<config, BUFFER_LENGTH, parsedContent, physmem, firstLoad>>
       ELSE IF ~ConfigFalsy(config)
       THEN /\ configPc' = "ok"
            /\ UNCHANGED <<config, BUFFER_LENGTH, parsedContent, physmem, firstLoad>>
       ELSE \E readable \in BOOLEAN : LoadConfig(readable)
    /\ UNCHANGED <<host, configFile, customVars, badipsVars, whitelistVars>>

-----------------------------------------------------------------------------
(* The file system around the process *)

\* the configuration file is deleted
RemoveConfigFile ==
    /\ configPc = "ok"
    /\ configFile.exists
    /\ configFile' = Absent
    /\ UNCHANGED <<host, config, BUFFER_LENGTH, configPc, parsedContent, physmem, firstLoad,
                   customVars, badipsVars, whitelistVars>>

\* the configuration file is emptied
TruncateConfigFile ==
    /\ configPc = "ok"
    /\ configFile.exists
    /\ configFile' = File(<<>>)
    /\ UNCHANGED <<host, config, BUFFER_LENGTH, configPc, parsedContent, physmem, firstLoad,
                   customVars, badipsVars, whitelistVars>>

\* lines of a configuration file
LineMonitor    == <<"M", "O", "N", "I", "T", "O", "R", "_", "I", "N", "T", "E", "R", "F", "A", "C", "E", " ", "a", "n", "y">>
LineHeuristics == <<"U", "S", "E", "_", "H", "E", "U", "R", "I", "S", "T", "I", "C", "S", " ", "T", "r", "u", "e">>
CaptureLine(v) == <<"C", "A", "P", "T", "U", "R", "E", "_", "B", "U", "F", "F", "E", "R", " ">> \o v
LogLine(v)     == <<"L", "O", "G", "_", "D", "I", "R", "E", "C", "T", "O", "R", "Y", " ">> \o v

ValHalf    == <<"5", "0", "%">>
ValVarLog  == <<"/", "v", "a", "r", "/", "l", "o", "g">>

\* values tried for CAPTURE_BUFFER: percentages, digits, a quoted value, an
\* environment variable holding digits, an empty string, a word
CaptureValues ==
    {ValHalf,
     <<"4", "0", "2", "2">>,
     <<"0">>,
     <<"'", "3", "%", "'">>,
     <<"$", "C", "B">>,
     <<"'", "'">>,
     <<"b", "i", "g">>,
     <<"1", "2", "3", "4", "5">>}

\* values tried for LOG_DIRECTORY: a path, a string global, a global that is no
\* string, a name that nothing defines
LogValues ==
    {ValVarLog,
     <<"$", "N", "A", "M", "E", "/", "l", "o", "g">>,
     <<"$", "T", "I", "M", "E", "O", "U", "T">>,
     <<"$", "Z", "Z", "/", "l">>}

PlainHead == <<LineMonitor, CaptureLine(ValHalf), LogLine(ValVarLog)>>

\* the opening lines of the modelled configuration files
Heads ==
    {<<LineMonitor, CaptureLine(v), LogLine(ValVarLog)>> : v \in CaptureValues}
    \cup {<<LineMonitor, CaptureLine(ValHalf), LogLine(v)>> : v \in LogValues}
    \cup {<<CaptureLine(ValHalf), LogLine(ValVarLog)>>,
          <<LineMonitor, LogLine(ValVarLog)>>,
          <<LineMonitor, CaptureLine(ValHalf)>>,
          <<LineHeuristics, LineMonitor, CaptureLine(ValHalf), LogLine(ValVarLog)>>}

\* lines that follow them: an array header, items led by a space, an item led by
\* a tab, a scalar, a comment
BodyLines ==
    {<<"a", "r", "r">>,
     <<" ", "a">>,
     <<" ", "c", " ", "d", " ", "#", " ", "e">>,
     <<"\t", "b">>,
     <<"k", " ", "'", "v", "'">>,
     <<" ", "\t">>}

MaxBody == 3

Bodies == SeqsUpTo(BodyLines, MaxBody)

\* the text of a file from its lines
Text(lines) == Join(lines, <<"\n">>) \o <<"\n">>

\* memory sizes the probes may answer: nothing, zero, a figure
Probes == {NoneVal, IntVal(0), IntVal(8)}

Hosts == [mswindows : BOOLEAN, primary : Probes, psutil : Probes]

PlainHost == [mswindows |-> FALSE, primary |-> IntVal(8), psutil |-> NoneVal]

\* the configuration file is rewritten
EditConfigFile ==
    /\ configPc = "ok"
    /\ \E v \in {ValHalf, <<"9", "%">>} :
          /\ configFile # File(Text(<<LineMonitor, CaptureLine(v), LogLine(ValVarLog)>>))
          /\ configFile' = File(Text(<<LineMonitor, CaptureLine(v), LogLine(ValVarLog)>>))
    /\ UNCHANGED <<host, config, BUFFER_LENGTH, configPc, parsedContent, physmem, firstLoad,
                   customVars, badipsVars, whitelistVars>>

\* lines of a whitelist file
WhitelistFileLines ==
    {<<"a", ".", "b">>,
     <<" ", "a", ".", "b", "\r">>,
     <<"#", "a", ".", "b">>,
     <<" ", "#", " ", "c">>,
     <<>>,
     <<"1", ".", "2", ".", "3", ".", "4", " ", "#", " ", "d">>}

MaxWhitelistLines == 2

\* a whitelist text: its lines, the last one with or without its terminator
WhitelistTexts ==
    {Join(ls, <<"\n">>) : ls \in SeqsUpTo(WhitelistFileLines, MaxWhitelistLines)}
    \cup {Text(ls) : ls \in SeqsUpTo(WhitelistFileLines, MaxWhitelistLines)}

\* trails/whitelist.txt is written
EditWhitelist ==
    /\ \E text \in WhitelistTexts :
          /\ whitelistFile # File(text)
          /\ whitelistFile' = File(text)
    /\ whitelistPc' = "edited"
    /\ UNCHANGED <<WHITELIST, dropped, customVars, badipsVars, configVars>>

\* trails/whitelist.txt is deleted
RemoveWhitelist ==
    /\ whitelistFile.exists
    /\ whitelistFile' = Absent
    /\ whitelistPc' = "edited"
    /\ UNCHANGED <<WHITELIST, dropped, customVars, badipsVars, configVars>>

\* names of files of the trails/custom directory
FileKnownAttackers == <<"k", "n", "o", "w", "n", "_", "a", "t", "t", "a", "c", "k", "e", "r", "s", ".", "t", "x", "t">>
FileDotted         == <<"a", "_", "b", ".", "c", ".", "t", "x", "t">>
FileNotes          == <<"n", "o", "t", "e", "s", ".", "m", "d">>
FileHidden         == <<".", "x", ".", "t", "x", "t">>

\* lines of the spec's examples
LineGate    == <<"h", "t", "t", "p", ":", "/", "/", "e", "x", "a", "m", "p", "l", "e", ".", "c", "o", "m", "/", "g", "a", "t", "e", ".", "p", "h", "p">>
LineQuad    == <<"1", ".", "2", ".", "3", ".", "4">>
LineEvil    == <<"e", "v", "i", "l", ".", "t", "l", "d", ".">>
LineTen     == <<"1", "0", ".", "0", ".", "0", ".", "5">>
LineComment == <<"#", " ", "1", "0", ".", "0", ".", "0", ".", "5">>

ExampleLines == {LineGate, LineQuad, LineEvil, LineTen, LineComment}

\* characters of the generated lines, and their greatest length
LineChars  == {"/", ".", ":", "1", "a", "#", " "}
MaxLineLen == 4

\* lines of the files with several lines, and the most lines of such a file
ListLines    == {LineTen, LineEvil, LineComment, LineGate, LineQuad}
MaxFileLines == 2

ListTexts == {Join(ls, <<"\n">>) : ls \in SeqsUpTo(ListLines, MaxFileLines) \ {<<>>}}

\* a directory from what each name holds; "-" is for no such file
Directory(known, dotted, other) ==
    LET names == {n \in {FileKnownAttackers, FileDotted, FileNotes, FileHidden} :
                     \/ n = FileKnownAttackers /\ known # <<"-">>
                     \/ n = FileDotted /\ dotted # <<"-">>
                     \/ n \in {FileNotes, FileHidden} /\ other}
    IN [n \in names |-> IF n = FileKnownAttackers THEN known
                        ELSE IF n = FileDotted THEN dotted ELSE LineTen]

\* the modelled directories: one list of one line, or a list of several lines and
\* a list of one line beside files the glob pattern does not match
CustomDirs ==
    {Directory(line, <<"-">>, FALSE) : line \in Strs(LineChars, MaxLineLen) \cup ExampleLines}
    \cup {Directory(d[1], d[2], d[3]) :
             d \in (ListTexts \cup {<<"-">>}) \X (ListLines \cup {<<"-">>}) \X BOOLEAN}

\* pieces of a feed's content, and the most pieces of a content
FeedChunks ==
    {<<".", "1", "2", "1", ".">>, <<"1", ".", "2">>, <<"\n">>, <<"\t">>, <<"#">>,
     <<".", "1", "2">>, <<"1", ".">>}
MaxChunks == 3

RECURSIVE Concat(_)
Concat(parts) == IF parts = <<>> THEN <<>> ELSE Head(parts) \o Concat(Tail(parts))

FeedContents == {Concat(cs) : cs \in SeqsUpTo(FeedChunks, MaxChunks)}

-----------------------------------------------------------------------------
(* Specifications *)

CustomIdle    == customDir = EmptyDict /\ customRetval = EmptyDict /\ customPc = "idle"
BadipsIdle    == feedContent = <<>> /\ badipsRetval = EmptyDict /\ badipsPc = "idle"
WhitelistIdle ==
    whitelistFile = Absent /\ WHITELIST = {} /\ whitelistPc = "idle" /\ dropped = {}
ConfigIdle ==
    /\ host = PlainHost
    /\ configFile = Absent
    /\ config = [set |-> FALSE, d |-> EmptyDict]
    /\ BUFFER_LENGTH = DefaultBufferLength
    /\ configPc = "idle"
    /\ parsedContent = NoContent
    /\ physmem = NoneVal
    /\ firstLoad = [done |-> FALSE, d |-> EmptyDict, bl |-> 0]

\* the custom adapter over the modelled directories
InitCustom ==
    /\ customDir \in CustomDirs
    /\ customRetval = EmptyDict
    /\ customPc = "idle"
    /\ BadipsIdle /\ WhitelistIdle /\ ConfigIdle

NextCustom == CustomFetch

SpecCustom == InitCustom /\ [][NextCustom]_vars

\* the badips adapter over the modelled contents
InitBadips ==
    /\ feedContent \in FeedContents
    /\ badipsRetval = EmptyDict
    /\ badipsPc = "idle"
    /\ CustomIdle /\ WhitelistIdle /\ ConfigIdle

NextBadips == BadipsFetch

SpecBadips == InitBadips /\ [][NextBadips]_vars

\* the whitelist store and its file
InitWhitelist ==
    /\ WhitelistIdle
    /\ CustomIdle /\ BadipsIdle /\ ConfigIdle

NextWhitelist == EditWhitelist \/ RemoveWhitelist \/ ReadWhitelist

SpecWhitelist == InitWhitelist /\ [][NextWhitelist]_vars

\* the configuration loader: every head on every host, and every body after the
\* plain head on the plain host
InitConfig ==
    /\ \E h \in Hosts, head \in Heads, body \in Bodies :
          /\ body = <<>> \/ (h = PlainHost /\ head = PlainHead)
          /\ host = h
          /\ configFile \in {File(Text(head \o body)), Absent}
    /\ config = [set |-> FALSE, d |-> EmptyDict]
    /\ BUFFER_LENGTH = DefaultBufferLength
    /\ configPc = "idle"
    /\ parsedContent = NoContent
    /\ physmem = NoneVal
    /\ firstLoad = [done |-> FALSE, d |-> EmptyDict, bl |-> 0]
    /\ CustomIdle /\ BadipsIdle /\ WhitelistIdle

NextConfig == ReadConfig \/ RemoveConfigFile \/ TruncateConfigFile \/ EditConfigFile

SpecConfig == InitConfig /\ [][NextConfig]_vars

-----------------------------------------------------------------------------
(* Properties of the custom adapter *)

\* the list files of a directory: the visible files named *.txt
ListFiles(dir) == DOMAIN dir \cap {FileKnownAttackers, FileDotted}

\* the entries of the list files: stripped lines that are neither blank nor comments
EntryLines(dir) ==
    {e \in {Strip(l) : l \in UNION {Range(Split(dir[f], "\n")) : f \in ListFiles(dir)}} :
        e # <<>> /\ Head(e) # "#"}

SchemeAt(e, i) == i + 2 <= Len(e) /\ e[i] = ":" /\ e[i + 1] = "/" /\ e[i + 2] = "/"

\* an entry with its scheme prefix discarded
Unschemed(e) ==
    IF \E i \in 1..Len(e) : SchemeAt(e, i)
    THEN LET i == CHOOSE k \in 1..Len(e) : SchemeAt(e, k) /\ \A j \in 1..(k - 1) : ~SchemeAt(e, j)
         IN SubSeq(e, i + 3, Len(e))
    ELSE e

\* a string without the path separators it ends in
WithoutTrailingSlashes(u) ==
    SubSeq(u, 1, CHOOSE k \in 0..Len(u) :
                    /\ k = 0 \/ u[k] # "/"
                    /\ \A j \in (k + 1)..Len(u) : u[j] = "/")

\* a string without one path separator at its end
WithoutOneTrailingSlash(u) ==
    IF u # <<>> /\ u[Len(u)] = "/" THEN SubSeq(u, 1, Len(u) - 1) ELSE u

\* a string without the dots it starts and ends with
Undotted(e) ==
    LET inner == {i \in 1..Len(e) : e[i] # "."}
    IN IF inner = {} THEN <<>>
       ELSE SubSeq(e, CHOOSE i \in inner : \A j \in inner : i <= j,
                      CHOOSE i \in inner : \A j \in inner : j <= i)

\* four groups of digits with a dot between them
IsDottedQuad(e) ==
    /\ e # <<>>
    /\ Range(e) \subseteq Digits \cup {"."}
    /\ Cardinality({i \in 1..Len(e) : e[i] = "."}) = 3
    /\ e[1] # "." /\ e[Len(e)] # "."
    /\ \A i \in 1..(Len(e) - 1) : ~(e[i] = "." /\ e[i + 1] = ".")

KeyGate == <<"e", "x", "a", "m", "p", "l", "e", ".", "c", "o", "m", "/", "g", "a", "t", "e", ".", "p", "h", "p">>
KeyEvil == <<"e", "v", "i", "l", ".", "t", "l", "d">>
CategoryKnownAttackers == <<"k", "n", "o", "w", "n", " ", "a", "t", "t", "a", "c", "k", "e", "r", "s">>
CategoryDotted == <<"a", " ", "b", ".", "c">>
ReferenceCustom == <<"(", "c", "u", "s", "t", "o", "m", ")">>

\* C4: a line with a scheme and a path registers the host+path string without the
\* scheme; a line that is a dotted-quad literal registers that literal, and nothing
\* else when it is the only entry; a domain registers without the dots around it.
\* So do the three lines of the specification's examples.
C4_NormalisedKeys ==
    customPc = "returned" =>
        /\ \A e \in EntryLines(customDir) :
              /\ (Unschemed(e) # e /\ "/" \in Range(Unschemed(e))
                    /\ Unschemed(e)[Len(Unschemed(e))] # "/")
                 => Unschemed(e) \in DOMAIN customRetval
              /\ IsDottedQuad(e)
                 => /\ e \in DOMAIN customRetval
                    /\ EntryLines(customDir) = {e} => DOMAIN customRetval = {e}
              /\ ("/" \notin Range(e) /\ ~IsDottedQuad(e)) => Undotted(e) \in DOMAIN customRetval
        /\ LineGate \in EntryLines(customDir) => KeyGate \in DOMAIN customRetval
        /\ LineQuad \in EntryLines(customDir) => LineQuad \in DOMAIN customRetval
        /\ LineEvil \in EntryLines(customDir) => KeyEvil \in DOMAIN customRetval

\* fetch has returned the three keys of the examples from a directory that lists them
C4_Witness ==
    /\ customPc = "returned"
    /\ {LineGate, LineQuad, LineEvil} \subseteq EntryLines(customDir)
    /\ {KeyGate, LineQuad, KeyEvil} \subseteq DOMAIN customRetval

\* the category a list file's name stands for
ExpectedCategory(f) == IF f = FileKnownAttackers THEN CategoryKnownAttackers ELSE CategoryDotted

\* C6: every entry of the result carries the reference "(custom)" and, as category,
\* the base name (underscores as spaces) of a list file that has a line normalising
\* to the entry's key; known_attackers.txt alone with 10.0.0.5 gives 10.0.0.5 the
\* category "known attackers".
C6_CategoryIsFileName ==
    customPc = "returned" =>
        /\ \A k \in DOMAIN customRetval :
              /\ customRetval[k][2] = ReferenceCustom
              /\ \E f \in ListFiles(customDir) :
                    /\ customRetval[k][1] = ExpectedCategory(f)
                    /\ \E l \in Range(Split(customDir[f], "\n")) :
                          k \in DOMAIN FetchLine(EmptyDict, <<>>, l)
        /\ (ListFiles(customDir) = {FileKnownAttackers} /\ LineTen \in EntryLines(customDir))
           => /\ LineTen \in DOMAIN customRetval
              /\ customRetval[LineTen] = <<CategoryKnownAttackers, ReferenceCustom>>

\* fetch has returned 10.0.0.5 as "known attackers" from known_attackers.txt
C6_Witness ==
    /\ customPc = "returned"
    /\ ListFiles(customDir) = {FileKnownAttackers}
    /\ LineTen \in EntryLines(customDir)
    /\ LineTen \in DOMAIN customRetval
    /\ customRetval[LineTen][1] = CategoryKnownAttackers

\* C9 as stated: one trailing separator is removed after the scheme is discarded,
\* and what then still holds a separator is registered whole.
C9_OneSeparatorRemoved ==
    customPc = "returned" =>
        \A e \in EntryLines(customDir) :
            "/" \in Range(WithoutOneTrailingSlash(Unschemed(e)))
            => WithoutOneTrailingSlash(Unschemed(e)) \in DOMAIN customRetval

\* C9 amended: every trailing separator is removed after the scheme is discarded,
\* so no key ends in one; what then still holds a separator is registered whole,
\* dots and digits untouched, and is the only key of a lone entry.
C9_AllSeparatorsRemoved ==
    customPc = "returned" =>
        /\ \A k \in DOMAIN customRetval : k = <<>> \/ k[Len(k)] # "/"
        /\ \A e \in EntryLines(customDir) :
              "/" \in Range(WithoutTrailingSlashes(Unschemed(e)))
              => /\ WithoutTrailingSlashes(Unschemed(e)) \in DOMAIN customRetval
                 /\ EntryLines(customDir) = {e}
                    => DOMAIN customRetval = {WithoutTrailingSlashes(Unschemed(e))}

\* fetch has returned the key of an entry that ends in two separators and holds a third
C9_Witness ==
    /\ customPc = "returned"
    /\ \E e \in EntryLines(customDir) :
          /\ Len(e) >= 3 /\ e[Len(e)] = "/" /\ e[Len(e) - 1] = "/"
          /\ "/" \in Range(WithoutTrailingSlashes(Unschemed(e)))
          /\ WithoutTrailingSlashes(Unschemed(e)) \in DOMAIN customRetval

\* C10: no key of the mapping fetch returns is the empty string.
C10_NoEmptyKey == customPc = "returned" => <<>> \notin DOMAIN customRetval

-----------------------------------------------------------------------------
(* Properties of the badips adapter *)

\* C5: a content without the sentinel yields the empty mapping, whatever its lines.
C5_UnvalidatedIsEmpty ==
    (badipsPc = "returned"
        /\ ~\E i \in 1..(Len(feedContent) - 4) : SubSeq(feedContent, i, i + 4) = badips__check__)
    => badipsRetval = EmptyDict

\* fetch has returned nothing for a content without the sentinel that has a line
\* with a dot in it
C5_Witness ==
    /\ badipsPc = "returned"
    /\ ~\E i \in 1..(Len(feedContent) - 4) : SubSeq(feedContent, i, i + 4) = badips__check__
    /\ \E l \in Range(Split(feedContent, "\n")) : "." \in Range(l) /\ l[1] # "#"
    /\ badipsRetval = EmptyDict

-----------------------------------------------------------------------------
(* Properties of the whitelist store *)

\* the entries of a whitelist text
WhitelistEntries(text) ==
    {e \in {Strip(l) : l \in Range(Split(text, "\n"))} : e # <<>> /\ e[1] # "#"}

\* C7: when read_whitelist returns, WHITELIST is the set of the stripped lines of
\* the file that are neither blank nor comments, and empty when there is no file.
C7_WhitelistIsFile ==
    whitelistPc = "returned" =>
        WHITELIST = IF whitelistFile.exists THEN WhitelistEntries(whitelistFile.content) ELSE {}

\* read_whitelist has returned after an edit that took an entry out and left one in
C7_Witness ==
    /\ whitelistPc = "returned"
    /\ dropped # {}
    /\ WHITELIST # {}
    /\ dropped \cap WHITELIST = {}

-----------------------------------------------------------------------------
(* Properties of the configuration loader *)

\* read_config has run its loop over the lines of the file to the end
ParseFinished ==
    /\ config.set
    /\ parsedContent.read
    /\ configPc \notin {"idle", "raised_ValueError", "raised_TypeError"}

\* the CAPTURE_BUFFER of the file is a number of bytes, a string of digits
IsAbsolute(v) == v.t = "int" \/ (v.t = "str" /\ IsDigit(v.s))
AbsoluteBytes(v) == IF v.t = "int" THEN v.n ELSE ParseInt(v.s)

\* the CAPTURE_BUFFER of the file is N%
IsPercentage(v) ==
    v.t = "str" /\ Len(v.s) >= 2 /\ v.s[Len(v.s)] = "%" /\ IsDigit(SubSeq(v.s, 1, Len(v.s) - 1))
PercentageOf(v) == ParseInt(SubSeq(v.s, 1, Len(v.s) - 1))

\* the host's memory size, when a probe tells it
ProbedBytes ==
    IF ~Falsy(host.primary)
    THEN (IF host.mswindows THEN host.primary.n ELSE 1024 * host.primary.n)
    ELSE host.psutil.n
Undeterminable == Falsy(host.primary) /\ Falsy(host.psutil)

\* C1: once read_config has completed, every later call returns normally and the
\* store and BUFFER_LENGTH are as the first load left them, whatever became of the file.
C1_LaterCallsAreNoOps ==
    firstLoad.done =>
        /\ configPc = "ok"
        /\ config.d = firstLoad.d
        /\ BUFFER_LENGTH = firstLoad.bl

\* C2: with CAPTURE_BUFFER a number of bytes N, read_config finishes with
\* BUFFER_LENGTH the greatest multiple of BLOCK_LENGTH that N reaches; with N% and a
\* known memory size, with physmem * N / 100 rounded down the same way.
C2_BufferIsRequestRoundedDown ==
    (ParseFinished /\ FirstMissing(config.d) = 0) =>
        LET cb == config.d[OptCaptureBuffer]
        IN /\ IsAbsolute(cb)
              => /\ firstLoad.done
                 /\ BUFFER_LENGTH = (AbsoluteBytes(cb) \div BLOCK_LENGTH) * BLOCK_LENGTH
           /\ (IsPercentage(cb) /\ ~Undeterminable)
              => /\ firstLoad.done
                 /\ BUFFER_LENGTH =
                       (((ProbedBytes * PercentageOf(cb)) \div 100) \div BLOCK_LENGTH) * BLOCK_LENGTH

\* the percentage half of C2 alone
C2_PercentageHalf ==
    (ParseFinished /\ FirstMissing(config.d) = 0) =>
        LET cb == config.d[OptCaptureBuffer]
        IN (IsPercentage(cb) /\ ~Undeterminable)
              => /\ firstLoad.done
                 /\ BUFFER_LENGTH =
                       (((ProbedBytes * PercentageOf(cb)) \div 100) \div BLOCK_LENGTH) * BLOCK_LENGTH

\* C3: with CAPTURE_BUFFER a percentage and no probe telling the memory size,
\* read_config exits; it does not complete, and BUFFER_LENGTH is not set.
C3_UnknownMemoryIsFatal ==
    (ParseFinished /\ FirstMissing(config.d) = 0
        /\ config.d[OptCaptureBuffer].t = "str"
        /\ (\E i \in 1..(Len(config.d[OptCaptureBuffer].s) - 1) :
               /\ config.d[OptCaptureBuffer].s[i] \in Digits
               /\ config.d[OptCaptureBuffer].s[i + 1] = "%")
        /\ Undeterminable)
    => /\ configPc = "exit_physmem"
       /\ ~firstLoad.done
       /\ BUFFER_LENGTH = DefaultBufferLength

\* read_config has exited on a percentage with /proc/meminfo telling zero and no psutil
C3_Witness ==
    /\ configPc = "exit_physmem"
    /\ OptCaptureBuffer \in DOMAIN config.d
    /\ IsPercentage(config.d[OptCaptureBuffer])
    /\ ~host.primary.none /\ host.primary.n = 0
    /\ host.psutil.none

\* a line as the grammar reads it: without its comment
Uncommented(line) ==
    LET i == Find(line, <<"#">>) IN IF i = 0 THEN line ELSE SubSeq(line, 1, i - 1)

Without(d, k) == [x \in DOMAIN d \ {k} |-> d[x]]

\* the arrays of a file by the grammar: a line that begins with whitespace goes to
\* the current array; a line without a space opens an array; any other line is a
\* scalar, which ends the current array and replaces an array of its name
RECURSIVE GrammarArrays(_, _, _)
GrammarArrays(lines, current, arrays) ==
    IF lines = <<>> THEN arrays
    ELSE LET line == Uncommented(Head(lines))
         IN IF Strip(line) = <<>> THEN GrammarArrays(Tail(lines), current, arrays)
            ELSE IF current # <<>> /\ Head(line) \in Whitespace
            THEN GrammarArrays(Tail(lines), current,
                               Put(arrays, current, Append(arrays[current], Strip(line))))
            ELSE IF " " \notin Range(line)
            THEN GrammarArrays(Tail(lines), Upper(line), Put(arrays, Upper(line), <<>>))
            ELSE GrammarArrays(Tail(lines), <<>>,
                               Without(arrays, Upper(SplitOnce(Strip(line), " ")[1])))

\* C8: after parsing, the array options are those the grammar gives, each with the
\* stripped whitespace-led lines that follow its header, in order.
C8_ArraysFollowGrammar ==
    ParseFinished =>
        LET arrays == GrammarArrays(Split(parsedContent.s, "\n"), <<>>, EmptyDict)
        IN /\ {k \in DOMAIN config.d : config.d[k].t = "list"} = DOMAIN arrays
           /\ \A k \in DOMAIN arrays : k \in DOMAIN config.d /\ config.d[k].l = arrays[k]

\* C8 for the files in which no line begins with a tab
C8_ArraysFollowGrammarSpaces ==
    (ParseFinished /\ \A l \in Range(Split(parsedContent.s, "\n")) : l = <<>> \/ l[1] # "\t")
    => LET arrays == GrammarArrays(Split(parsedContent.s, "\n"), <<>>, EmptyDict)
       IN /\ {k \in DOMAIN config.d : config.d[k].t = "list"} = DOMAIN arrays
          /\ \A k \in DOMAIN arrays : k \in DOMAIN config.d /\ config.d[k].l = arrays[k]

=============================================================================
